---- MODULE Spec2Model ----
(***************************************************************************)
(* The audio capture pipeline of the Google Meet summarizer:               *)
(* AudioRecorder (audio_recorder.py), its worker thread and stream         *)
(* callback, and the calls the Streamlit UI (app.py) makes on it.          *)
(*                                                                         *)
(* Threads of control: one orchestrator (the caller of start_recording,    *)
(* stop_recording and set_device), one worker thread per successful        *)
(* start_recording, and the host audio thread that runs _audio_callback    *)
(* while a worker's InputStream is open.  A call of the orchestrator is    *)
(* split at every point where another thread can observe or change the     *)
(* recorder between two of its statements.                                 *)
(***************************************************************************)
EXTENDS Integers, Sequences, FiniteSets, TLC

\* ------------------------------------------------------------------ bounds
MaxThreads == 2      \* worker threads ever created (successful starts)
MaxChunks == 2       \* chunks the host ever delivers to the callback
MaxClock == 2        \* seconds the wall clock is followed for
MaxHostDevices == 3  \* devices the host audio subsystem lists

\* --------------------------------------------------------------- constants
SAMPLE_RATE == 44100
CHANNELS == 2
NoDevice == 0 - 1    \* current_device is None: the host default device
NoThread == 0        \* recording_thread is None
NominalChunkMs == 100  \* the 0.1 s get_recording_duration counts per chunk

None == "<None>"
RECORDINGS_DIR == "recordings/"

Threads == 1 .. MaxThreads
Devices == {0}                 \* the host's input device ids
Names == {"unit_test"}         \* caller-supplied file names
FrameCounts == {1, 2}          \* frames the host puts in one chunk
SampleRates == {SAMPLE_RATE, 16000}   \* sample rates a recorder is built with
ChannelCounts == {1, CHANNELS}        \* channel counts a recorder is built with

\* a device as sd.query_devices() describes it
Microphone ==
    [name |-> "Microphone", max_input_channels |-> 2, default_samplerate |-> 44100]
Speakers ==
    [name |-> "Speakers", max_input_channels |-> 0, default_samplerate |-> 48000]
Headset ==
    [name |-> "Headset", max_input_channels |-> 1, default_samplerate |-> 16000]
HostDeviceKinds == {Microphone, Speakers, Headset}
\* the device lists a host can have, in its enumeration order
HostLists == UNION {[1 .. n -> HostDeviceKinds] : n \in 0 .. MaxHostDevices}
\* the host of Spec: one input device, with id 0
DefaultHost == <<Microphone>>

VARIABLES
    sample_rate,       \* self.sample_rate
    channels,          \* self.channels
    is_recording,      \* self.is_recording
    audio_queue,       \* self.audio_queue, a FIFO of chunks
    recording_thread,  \* self.recording_thread: a thread id, or NoThread
    current_device,    \* self.current_device: a device id, or NoDevice
    threads,           \* every worker thread: its position, its stream's parameters
    pc,                \* the orchestrator's position inside its current call
    audio_chunks,      \* stop_recording's local list
    filename,          \* stop_recording's argument
    ret,               \* the last completed call of the recorder and what it returned
    files,             \* the WAV files under the recordings directory
    now,               \* the wall clock, in seconds
    ndelivered,        \* history: how many chunks the host has delivered
    session_open,      \* history: a start has succeeded and no stop has returned since
    cleared_by,        \* history: the worker that cleared the flag of this session
    session_chunks,    \* history: ids of the chunks delivered in the open session
    drain_start,       \* history: the queue when the join of this stop returned
    start_device,      \* history: the device selected when the last start returned
    host_devices,      \* what sd.query_devices() returns, in enumeration order
    host_available,    \* whether the host audio subsystem can be queried
    listed,            \* the last get_audio_devices call and how it ended
    ui_is_recording,   \* st.session_state.is_recording
    ui_handler,        \* the button handler of the UI script that is running
    summarizer_model,  \* whether Summarizer.model is set (is_configured())
    last_summarize,    \* the last Summarizer.summarize call and how it ended
    process_pc,        \* the position of the Transcribe & Summarize handler
    result_text,       \* the handler's local result['text']
    current_transcript,  \* st.session_state.current_transcript
    current_summary,   \* st.session_state.current_summary
    transcript_file,   \* the text saved in transcripts/<meeting>.txt, or None
    summary_file       \* the text saved in summaries/<meeting>.md, or None

\* the attributes that only the constructor assigns
config == <<sample_rate, channels>>

vars == <<sample_rate, channels, is_recording, audio_queue, recording_thread, current_device, threads,
          pc, audio_chunks, filename, ret, files, now,
          ndelivered, session_open, cleared_by, session_chunks, drain_start,
          start_device, host_devices, host_available, listed,
          ui_is_recording, ui_handler,
          summarizer_model, last_summarize, process_pc, result_text,
          current_transcript, current_summary, transcript_file, summary_file>>

\* the host audio subsystem and the last listing of its devices
host == <<host_devices, host_available, listed>>

\* the session state of the UI script
ui == <<ui_is_recording, ui_handler>>

\* the summarizer and the Transcribe & Summarize handler of the UI script
pipeline == <<summarizer_model, last_summarize, process_pc, result_text,
              current_transcript, current_summary, transcript_file, summary_file>>

\* ------------------------------------------------------------ pure helpers

\* the texts the speech recognizer can give for the recording at hand, and
\* the texts the cloud model can give for a prompt; each call of either is a
\* new run of the service and may give any of them, or fail
Transcripts == {"we will ship on friday", "we will chip on friday"}
CloudTexts == {"Overview: release on Friday", "Overview: the team will ship"}
ServiceError == "<error>"
NoCall == "<no call>"

\* summarizer.py lines 95-139: the offline summary is computed from the
\* transcript alone
GetOfflineSummary(transcript) == "Meeting Summary (Offline Mode): " \o transcript

\* summarize without the try block around the cloud call
Summarize_NoFallback(configured, transcript, cloud) ==
    IF ~configured
    THEN [called |-> TRUE, transcript |-> transcript, cloud |-> NoCall,
          raised |-> FALSE, summary |-> GetOfflineSummary(transcript)]
    ELSE IF cloud = ServiceError
    THEN [called |-> TRUE, transcript |-> transcript, cloud |-> cloud,
          raised |-> TRUE, summary |-> None]
    ELSE [called |-> TRUE, transcript |-> transcript, cloud |-> cloud,
          raised |-> FALSE, summary |-> cloud]

\* summarizer.py lines 62-93, with the default prompt: what the call returns
\* and what it did, `cloud` being what generate_content and response.text
\* give if they are reached (a text, or ServiceError when either raises)
Summarize(configured, transcript, cloud) ==
    IF ~configured
    THEN [called |-> TRUE, transcript |-> transcript, cloud |-> NoCall,
          raised |-> FALSE, summary |-> GetOfflineSummary(transcript)]
    ELSE IF cloud = ServiceError
    THEN [called |-> TRUE, transcript |-> transcript, cloud |-> cloud,
          raised |-> FALSE, summary |-> GetOfflineSummary(transcript)]
    ELSE [called |-> TRUE, transcript |-> transcript, cloud |-> cloud,
          raised |-> FALSE, summary |-> cloud]

NotSummarized ==
    [called |-> FALSE, transcript |-> None, cloud |-> NoCall,
     raised |-> FALSE, summary |-> None]

\* lines 55-62: the loop over enumerate(devices) from the i-th device on;
\* enumerate counts from 0, a sequence from 1
RECURSIVE GetAudioDevicesFrom(_, _)
GetAudioDevicesFrom(devices, i) ==
    IF i > Len(devices) THEN <<>>
    ELSE LET device == devices[i]
         IN IF device.max_input_channels > 0
            THEN <<[id |-> i - 1,
                    name |-> device.name,
                    channels |-> device.max_input_channels,
                    sample_rate |-> device.default_samplerate]>>
                 \o GetAudioDevicesFrom(devices, i + 1)
            ELSE GetAudioDevicesFrom(devices, i + 1)

\* get_audio_devices numbering the devices it returns by their place in the
\* returned list
GetAudioDevices_ListIndex(devices) ==
    LET input_devices == GetAudioDevicesFrom(devices, 1)
    IN [k \in 1 .. Len(input_devices) |-> [input_devices[k] EXCEPT !.id = k - 1]]

\* lines 53-64: the list get_audio_devices builds from what the host lists
GetAudioDevices(devices) == GetAudioDevicesFrom(devices, 1)

\* what a get_audio_devices call left: the list it returned, or that it raised
Listed(input_devices, raised) ==
    [called |-> TRUE, raised |-> raised, input_devices |-> input_devices]
NotListed == [called |-> FALSE, raised |-> FALSE, input_devices |-> <<>>]

\* A delivered chunk: indata.copy(), an array of shape (frames, channels)
\* sampled at the stream's rate.  id is the chunk's place in the host's
\* delivery order, src the thread whose stream delivered it.
Chunk(id, src, frames, stream) ==
    [id |-> id, src |-> src, frames |-> frames,
     channels |-> stream.channels, samplerate |-> stream.samplerate]

\* The rows of one chunk; a row is named by its chunk and its index in it, and
\* is as wide as the chunk has channels.
Rows(c) ==
    [i \in 1 .. c.frames |->
        [chunk |-> c.id, src |-> c.src, row |-> i, width |-> c.channels]]

\* np.concatenate(audio_chunks, axis=0)
RECURSIVE Concatenate(_)
Concatenate(chunks) ==
    IF chunks = <<>> THEN <<>>
    ELSE Rows(Head(chunks)) \o Concatenate(Tail(chunks))

\* datetime.now().strftime("%Y%m%d_%H%M%S"): one-second resolution
Timestamp(t) == ToString(t)

\* RECORDINGS_DIR / f"{filename}.wav", with the generated name for None
FilePath(fn, t) ==
    LET name == IF fn = None THEN "meeting_" \o Timestamp(t) ELSE fn
    IN RECORDINGS_DIR \o name \o ".wav"

\* scipy.io.wavfile.write(path, rate, data): creates or overwrites the file;
\* the header takes the rate it is given and the channel count of the data
WriteWav(fs, path, rate, data) ==
    {f \in fs : f.path # path}
        \cup {[path |-> path, rate |-> rate,
               channels |-> IF data = <<>> THEN 0 ELSE data[1].width,
               data |-> data]}

\* queue.Queue: put, get_nowait (what it returns, what it leaves), empty
QueuePut(q, c) == Append(q, c)
QueueGet(q) == Head(q)
QueueRest(q) == Tail(q)
QueueEmpty(q) == q = <<>>
QueueSize(q) == Len(q)

\* qsize() * 0.1 seconds for n chunks, written in milliseconds
Duration(n) == ToString(n * NominalChunkMs) \o " ms"

\* a thread that has been started and has not terminated
Alive(w) == threads[w].pc \in {"started", "loop"}
\* a thread whose InputStream is open
StreamOpen(w) == threads[w].pc = "loop"
Created == {w \in Threads : threads[w].pc # "unborn"}
NextThread == Cardinality(Created) + 1

Unborn == [pc |-> "unborn", device |-> NoDevice, samplerate |-> 0, channels |-> 0]
Dead == [pc |-> "dead", device |-> NoDevice, samplerate |-> 0, channels |-> 0]

Returned(op, val, was_recording) ==
    [op |-> op, val |-> val, was_recording |-> was_recording]

\* --------------------------------------------------------------- initial

\* __init__, lines 38-43
AudioRecorderInit(sr, ch) ==
    /\ sample_rate = sr
    /\ channels = ch
    /\ is_recording = FALSE
    /\ audio_queue = <<>>
    /\ recording_thread = NoThread
    /\ current_device = NoDevice
    /\ threads = [w \in Threads |-> Unborn]
    /\ pc = "idle"
    /\ audio_chunks = <<>>
    /\ filename = None
    /\ ret = Returned("none", None, FALSE)
    /\ files = {}
    /\ now = 0
    /\ ndelivered = 0
    /\ session_open = FALSE
    /\ cleared_by = NoThread
    /\ session_chunks = {}
    /\ drain_start = <<>>
    /\ start_device = NoDevice

\* the host audio subsystem as the program finds it
HostInit(devices, available) ==
    /\ host_devices = devices
    /\ host_available = available
    /\ listed = NotListed

\* app.py lines 177-178; no button has been pressed
UiInit ==
    /\ ui_is_recording = FALSE
    /\ ui_handler = "none"

\* summarizer.py lines 39-55 and app.py lines 174-184: the summarizer with or
\* without a model, nothing transcribed or summarized yet
PipelineInit(configured) ==
    /\ summarizer_model = configured
    /\ last_summarize = NotSummarized
    /\ process_pc = "idle"
    /\ result_text = None
    /\ current_transcript = ""
    /\ current_summary = ""
    /\ transcript_file = None
    /\ summary_file = None

\* the UI's recorder: AudioRecorder() with the defaults of config.py
Init ==
    /\ AudioRecorderInit(SAMPLE_RATE, CHANNELS)
    /\ HostInit(DefaultHost, TRUE)
    /\ UiInit
    /\ PipelineInit(FALSE)

\* a recorder built with any of the supported parameters
ConfigInit ==
    /\ \E sr \in SampleRates, ch \in ChannelCounts : AudioRecorderInit(sr, ch)
    /\ HostInit(DefaultHost, TRUE)
    /\ UiInit
    /\ PipelineInit(FALSE)

\* the UI's recorder on any host, whether or not it can be queried
DeviceInit ==
    /\ AudioRecorderInit(SAMPLE_RATE, CHANNELS)
    /\ \E devices \in HostLists, available \in BOOLEAN : HostInit(devices, available)
    /\ UiInit
    /\ PipelineInit(FALSE)

\* the UI after a recording has been saved, with or without an API key
ProcessInit ==
    /\ AudioRecorderInit(SAMPLE_RATE, CHANNELS)
    /\ HostInit(DefaultHost, TRUE)
    /\ UiInit
    /\ \E configured \in BOOLEAN : PipelineInit(configured)

\* ------------------------------------------------------------- set_device

\* line 80
SetDeviceBody(device_id) ==
    current_device' = device_id

SetDevice(device_id) ==
    /\ pc = "idle"
    /\ SetDeviceBody(device_id)
    /\ UNCHANGED <<is_recording, audio_queue, recording_thread, threads,
                   pc, audio_chunks, filename, ret, files, now,
                   ndelivered, session_open, cleared_by, session_chunks, drain_start>>
    /\ UNCHANGED <<config, host, ui, pipeline, start_device>>

\* The sidebar of the UI script: every script run lists the input devices and
\* sets the recorder to the one selected in the select box; with no input
\* device, or when the listing raises, it shows an error and sets nothing.
SidebarDeviceSelection ==
    /\ pc = "idle"
    /\ IF host_available
       THEN LET devices == GetAudioDevices(host_devices)
            IN IF devices # <<>>
               THEN \E selected_device \in 1 .. Len(devices) :
                       SetDeviceBody(devices[selected_device].id)
               ELSE UNCHANGED current_device
       ELSE UNCHANGED current_device
    /\ UNCHANGED <<is_recording, audio_queue, recording_thread, threads,
                   pc, audio_chunks, filename, ret, files, now,
                   ndelivered, session_open, cleared_by, session_chunks, drain_start>>
    /\ UNCHANGED <<config, host, ui, pipeline, start_device>>

\* ------------------------------------------------------ get_audio_devices

\* lines 52-64: sd.query_devices() is called outside any try block, so its
\* error leaves the call
GetAudioDevicesCall ==
    /\ pc = "idle"
    /\ listed' = IF host_available
                 THEN Listed(GetAudioDevices(host_devices), FALSE)
                 ELSE Listed(<<>>, TRUE)
    /\ UNCHANGED <<config, host_devices, host_available, ui, pipeline, start_device>>
    /\ UNCHANGED <<is_recording, audio_queue, recording_thread, current_device,
                   threads, pc, audio_chunks, filename, ret, files, now,
                   ndelivered, session_open, cleared_by, session_chunks, drain_start>>

\* -------------------------------------------------------- start_recording

\* start_recording with the device argument applied before the guard
StartRecording_DeviceFirst(device_id) ==
    /\ pc = "idle"
    /\ current_device' = IF device_id # NoDevice THEN device_id ELSE current_device
    /\ IF is_recording
       THEN /\ ret' = Returned("start_recording", "False", TRUE)
            /\ UNCHANGED pc
       ELSE /\ NextThread <= MaxThreads
            /\ pc' = "start_clear"
            /\ UNCHANGED ret
    /\ UNCHANGED <<is_recording, audio_queue, recording_thread, threads,
                   audio_chunks, filename, files, now,
                   ndelivered, session_open, cleared_by, session_chunks, drain_start>>
    /\ UNCHANGED <<config, host, ui, pipeline, start_device>>

\* lines 114-120: the guard, then the device argument
StartRecordingCall(device_id) ==
    /\ pc = "idle"
    /\ IF is_recording
       THEN /\ ret' = Returned("start_recording", "False", TRUE)
            /\ UNCHANGED <<pc, current_device>>
       ELSE /\ NextThread <= MaxThreads
            /\ current_device' = IF device_id # NoDevice THEN device_id ELSE current_device
            /\ pc' = "start_clear"
            /\ UNCHANGED ret
    /\ UNCHANGED <<is_recording, audio_queue, recording_thread, threads,
                   audio_chunks, filename, files, now,
                   ndelivered, session_open, cleared_by, session_chunks, drain_start>>
    /\ UNCHANGED <<config, host, pipeline, start_device>>

\* start_recording called by a caller other than the UI's buttons
StartRecording(device_id) ==
    /\ StartRecordingCall(device_id)
    /\ UNCHANGED ui

\* lines 122-127: one turn of the loop that empties the queue
StartClear ==
    /\ pc = "start_clear"
    /\ IF ~QueueEmpty(audio_queue)
       THEN /\ audio_queue' = QueueRest(audio_queue)
            /\ UNCHANGED pc
       ELSE /\ pc' = "start_run"
            /\ UNCHANGED audio_queue
    /\ UNCHANGED <<is_recording, recording_thread, current_device, threads,
                   audio_chunks, filename, ret, files, now,
                   ndelivered, session_open, cleared_by, session_chunks, drain_start>>
    /\ UNCHANGED <<config, host, ui, pipeline, start_device>>

\* lines 129-135: set the flag, create and start the worker, return True
StartRunCall ==
    /\ pc = "start_run"
    /\ is_recording' = TRUE
    /\ recording_thread' = NextThread
    /\ threads' = [threads EXCEPT ![NextThread].pc = "started"]
    /\ pc' = "idle"
    /\ ret' = Returned("start_recording", "True", FALSE)
    /\ session_open' = TRUE
    /\ cleared_by' = NoThread
    /\ session_chunks' = {}
    /\ UNCHANGED <<audio_queue, current_device, audio_chunks, filename,
                   files, now, ndelivered, drain_start>>
    /\ UNCHANGED <<config, host, ui, pipeline>>

StartRun ==
    /\ StartRunCall
    /\ UNCHANGED start_device

\* the same step, with the device selected at that moment put on record
StartRunRecorded ==
    /\ StartRunCall
    /\ start_device' = current_device

\* --------------------------------------------------------- stop_recording

\* stop_recording without its guard: it joins and drains whatever the flag is
StopRecording_NoGuard(fn) ==
    /\ pc = "idle"
    /\ is_recording' = FALSE
    /\ filename' = fn
    /\ pc' = "stop_join"
    /\ UNCHANGED <<ret, session_open, session_chunks>>
    /\ UNCHANGED <<audio_queue, recording_thread, current_device, threads,
                   audio_chunks, files, now, ndelivered, cleared_by, drain_start>>
    /\ UNCHANGED <<config, host, ui, pipeline, start_device>>

\* stop_recording that leaves the flag set
StopRecording_KeepsFlag(fn) ==
    /\ pc = "idle"
    /\ IF ~is_recording
       THEN /\ ret' = Returned("stop_recording", None, FALSE)
            /\ session_open' = FALSE
            /\ session_chunks' = {}
            /\ UNCHANGED <<is_recording, pc, filename>>
       ELSE /\ filename' = fn
            /\ pc' = "stop_join"
            /\ UNCHANGED <<is_recording, ret, session_open, session_chunks>>
    /\ UNCHANGED <<audio_queue, recording_thread, current_device, threads,
                   audio_chunks, files, now, ndelivered, cleared_by, drain_start>>
    /\ UNCHANGED <<config, host, ui, pipeline, start_device>>

\* lines 147-152: the guard, then the flag is cleared
StopRecordingCall(fn) ==
    /\ pc = "idle"
    /\ IF ~is_recording
       THEN /\ ret' = Returned("stop_recording", None, FALSE)
            /\ session_open' = FALSE
            /\ session_chunks' = {}
            /\ UNCHANGED <<is_recording, pc, filename>>
       ELSE /\ is_recording' = FALSE
            /\ filename' = fn
            /\ pc' = "stop_join"
            /\ UNCHANGED <<ret, session_open, session_chunks>>
    /\ UNCHANGED <<audio_queue, recording_thread, current_device, threads,
                   audio_chunks, files, now, ndelivered, cleared_by, drain_start>>
    /\ UNCHANGED <<config, host, pipeline, start_device>>

\* stop_recording called by a caller other than the UI's buttons
StopRecording(fn) ==
    /\ StopRecordingCall(fn)
    /\ UNCHANGED ui

\* join() without a timeout
JoinReturns_NoTimeout(t) ==
    threads[t].pc = "dead"

\* recording_thread.join(timeout=2.0) returns when the thread has terminated,
\* or when the two seconds have passed, whatever the thread does
JoinReturns(t) ==
    \/ threads[t].pc = "dead"     \* the thread has terminated
    \/ threads[t].pc # "dead"     \* the timeout has passed first

\* lines 154-158
StopJoin ==
    /\ pc = "stop_join"
    /\ recording_thread # NoThread => JoinReturns(recording_thread)
    /\ audio_chunks' = <<>>
    /\ drain_start' = audio_queue
    /\ pc' = "stop_drain"
    /\ UNCHANGED <<is_recording, audio_queue, recording_thread, current_device,
                   threads, filename, ret, files, now,
                   ndelivered, session_open, cleared_by, session_chunks>>
    /\ UNCHANGED <<config, host, ui, pipeline, start_device>>

\* a drain that puts each chunk in front of the list
StopDrain_Prepend ==
    /\ pc = "stop_drain"
    /\ IF ~QueueEmpty(audio_queue)
       THEN /\ audio_chunks' = <<QueueGet(audio_queue)>> \o audio_chunks
            /\ audio_queue' = QueueRest(audio_queue)
            /\ UNCHANGED pc
       ELSE /\ pc' = "stop_save"
            /\ UNCHANGED <<audio_queue, audio_chunks>>
    /\ UNCHANGED <<is_recording, recording_thread, current_device, threads,
                   filename, ret, files, now,
                   ndelivered, session_open, cleared_by, session_chunks, drain_start>>
    /\ UNCHANGED <<config, host, ui, pipeline, start_device>>

\* lines 159-164: one turn of the loop that drains the queue
StopDrain ==
    /\ pc = "stop_drain"
    /\ IF ~QueueEmpty(audio_queue)
       THEN /\ audio_chunks' = Append(audio_chunks, QueueGet(audio_queue))
            /\ audio_queue' = QueueRest(audio_queue)
            /\ UNCHANGED pc
       ELSE /\ pc' = "stop_save"
            /\ UNCHANGED <<audio_queue, audio_chunks>>
    /\ UNCHANGED <<is_recording, recording_thread, current_device, threads,
                   filename, ret, files, now,
                   ndelivered, session_open, cleared_by, session_chunks, drain_start>>
    /\ UNCHANGED <<config, host, ui, pipeline, start_device>>

\* a save without the "No audio data recorded!" test: an empty file is written
StopSave_NoEmptyTest ==
    /\ pc = "stop_save"
    /\ pc' = "idle"
    /\ LET audio_data == Concatenate(audio_chunks)
           filepath == FilePath(filename, now)
       IN \/ /\ files' = WriteWav(files, filepath, sample_rate, audio_data)
             /\ ret' = Returned("stop_recording", filepath, TRUE)
          \/ /\ ret' = Returned("stop_recording", "raised", TRUE)
             /\ UNCHANGED files
    /\ audio_chunks' = <<>>
    /\ filename' = None
    /\ session_open' = FALSE
    /\ session_chunks' = {}
    /\ drain_start' = <<>>
    /\ UNCHANGED <<is_recording, audio_queue, recording_thread, current_device,
                   threads, now, ndelivered, cleared_by>>
    /\ UNCHANGED <<config, host, ui, pipeline, start_device>>

\* stop_recording writing the file with the rate of config.py rather than the
\* recorder's own
StopSave_DefaultRate ==
    /\ pc = "stop_save"
    /\ pc' = "idle"
    /\ IF audio_chunks = <<>>
       THEN /\ ret' = Returned("stop_recording", None, TRUE)
            /\ UNCHANGED files
       ELSE LET audio_data == Concatenate(audio_chunks)
                filepath == FilePath(filename, now)
            IN \/ /\ files' = WriteWav(files, filepath, SAMPLE_RATE, audio_data)
                  /\ ret' = Returned("stop_recording", filepath, TRUE)
               \/ /\ ret' = Returned("stop_recording", "raised", TRUE)
                  /\ UNCHANGED files
    /\ audio_chunks' = <<>>
    /\ filename' = None
    /\ session_open' = FALSE
    /\ session_chunks' = {}
    /\ drain_start' = <<>>
    /\ UNCHANGED <<is_recording, audio_queue, recording_thread, current_device,
                   threads, now, ndelivered, cleared_by>>
    /\ UNCHANGED <<config, host, ui, pipeline, start_device>>

\* lines 166-183: nothing recorded, or concatenate, name and write the file;
\* the write may raise (unwritable destination)
StopSave ==
    /\ pc = "stop_save"
    /\ pc' = "idle"
    /\ IF audio_chunks = <<>>
       THEN /\ ret' = Returned("stop_recording", None, TRUE)
            /\ UNCHANGED files
       ELSE LET audio_data == Concatenate(audio_chunks)
                filepath == FilePath(filename, now)
            IN \/ /\ files' = WriteWav(files, filepath, sample_rate, audio_data)
                  /\ ret' = Returned("stop_recording", filepath, TRUE)
               \/ /\ ret' = Returned("stop_recording", "raised", TRUE)
                  /\ UNCHANGED files
    /\ audio_chunks' = <<>>
    /\ filename' = None
    /\ session_open' = FALSE
    /\ session_chunks' = {}
    /\ drain_start' = <<>>
    /\ UNCHANGED <<is_recording, audio_queue, recording_thread, current_device,
                   threads, now, ndelivered, cleared_by>>
    /\ UNCHANGED <<config, host, ui, pipeline, start_device>>

\* ------------------------------------------------------- the UI's buttons

\* app.py lines 347-351: the Start button, enabled while the UI does not show
\* a recording, calls start_recording()
StartButton ==
    /\ ui_handler = "none"
    /\ ~ui_is_recording
    /\ StartRecordingCall(NoDevice)
    /\ ui_handler' = "start"
    /\ UNCHANGED ui_is_recording

\* app.py lines 352-357: the call has returned
StartHandlerReturn ==
    /\ ui_handler = "start"
    /\ pc = "idle"
    /\ LET success == ret.val = "True"
       IN ui_is_recording' = IF success THEN TRUE ELSE ui_is_recording
    /\ ui_handler' = "none"
    /\ UNCHANGED <<is_recording, audio_queue, recording_thread, current_device,
                   threads, pc, audio_chunks, filename, ret, files, now,
                   ndelivered, session_open, cleared_by, session_chunks, drain_start>>
    /\ UNCHANGED <<config, host, pipeline, start_device>>

\* app.py lines 360-368: the Stop button, enabled while the UI shows a
\* recording, calls stop_recording with a name made from the clock
StopButton ==
    /\ ui_handler = "none"
    /\ ui_is_recording
    /\ LET meeting_name == "meeting_" \o Timestamp(now)
       IN StopRecordingCall(meeting_name)
    /\ ui_handler' = "stop"
    /\ UNCHANGED ui_is_recording

\* app.py lines 370-377: the call has returned a path, or None, or has raised
\* (the handler does not catch: the script run ends there)
StopHandlerReturn ==
    /\ ui_handler = "stop"
    /\ pc = "idle"
    /\ LET audio_path == ret.val
       IN ui_is_recording' = IF audio_path # "raised" /\ audio_path # None
                             THEN FALSE ELSE ui_is_recording
    /\ ui_handler' = "none"
    /\ UNCHANGED <<is_recording, audio_queue, recording_thread, current_device,
                   threads, pc, audio_chunks, filename, ret, files, now,
                   ndelivered, session_open, cleared_by, session_chunks, drain_start>>
    /\ UNCHANGED <<config, host, pipeline, start_device>>

\* ------------------------------------------- the Transcribe & Summarize button

\* what none of the handler's steps changes
ProcessFrame ==
    /\ UNCHANGED <<is_recording, audio_queue, recording_thread, current_device,
                   threads, pc, audio_chunks, filename, ret, files, now,
                   ndelivered, session_open, cleared_by, session_chunks, drain_start>>
    /\ UNCHANGED <<config, host, ui, summarizer_model, start_device>>

\* app.py lines 395-404: transcriber.transcribe(last_audio_file); an error
\* goes to the except clause of line 429
ProcessTranscribe ==
    /\ process_pc \in {"idle", "done", "failed"}
    /\ \E text \in Transcripts \cup {ServiceError} :
          IF text = ServiceError
          THEN /\ process_pc' = "failed"
               /\ UNCHANGED <<result_text, current_transcript>>
          ELSE /\ result_text' = text
               /\ current_transcript' = text
               /\ process_pc' = "summarize"
    /\ UNCHANGED <<last_summarize, current_summary, transcript_file, summary_file>>
    /\ ProcessFrame

\* app.py lines 409-410: summarizer.summarize(result['text'])
ProcessSummarize ==
    /\ process_pc = "summarize"
    /\ \E cloud \in CloudTexts \cup {ServiceError} :
          LET r == Summarize(summarizer_model, result_text, cloud)
          IN /\ last_summarize' = r
             /\ IF r.raised
                THEN /\ process_pc' = "failed"
                     /\ UNCHANGED current_summary
                ELSE /\ current_summary' = r.summary
                     /\ process_pc' = "save_transcript"
    /\ UNCHANGED <<result_text, current_transcript, transcript_file, summary_file>>
    /\ ProcessFrame

\* app.py lines 413-417 and transcriber.py lines 179-195: transcribe_and_save
\* transcribes the file again and writes that text
ProcessSaveTranscript ==
    /\ process_pc = "save_transcript"
    /\ \E text \in Transcripts \cup {ServiceError} :
          IF text = ServiceError
          THEN /\ process_pc' = "failed"
               /\ UNCHANGED transcript_file
          ELSE /\ transcript_file' = text
               /\ process_pc' = "save_summary"
    /\ UNCHANGED <<last_summarize, result_text, current_transcript,
                   current_summary, summary_file>>
    /\ ProcessFrame

\* app.py lines 418-427 and summarizer.py lines 157-169: summarize_and_save
\* summarizes result['text'] again and writes that summary
ProcessSaveSummary ==
    /\ process_pc = "save_summary"
    /\ \E cloud \in CloudTexts \cup {ServiceError} :
          LET r == Summarize(summarizer_model, result_text, cloud)
          IN /\ last_summarize' = r
             /\ IF r.raised
                THEN /\ process_pc' = "failed"
                     /\ UNCHANGED summary_file
                ELSE /\ summary_file' = r.summary
                     /\ process_pc' = "done"
    /\ UNCHANGED <<result_text, current_transcript, current_summary, transcript_file>>
    /\ ProcessFrame

\* ------------------------------------------------- get_recording_duration

\* get_recording_duration without the test of the flag
GetRecordingDuration_NoFlagTest ==
    /\ pc = "idle"
    /\ ret' = Returned("get_recording_duration",
                       Duration(QueueSize(audio_queue)), is_recording)
    /\ UNCHANGED <<is_recording, audio_queue, recording_thread, current_device,
                   threads, pc, audio_chunks, filename, files, now,
                   ndelivered, session_open, cleared_by, session_chunks, drain_start>>
    /\ UNCHANGED <<config, host, ui, pipeline, start_device>>

\* lines 192-196
GetRecordingDuration ==
    /\ pc = "idle"
    /\ ret' = Returned("get_recording_duration",
                       IF ~is_recording THEN Duration(0)
                       ELSE Duration(QueueSize(audio_queue)),
                       is_recording)
    /\ UNCHANGED <<is_recording, audio_queue, recording_thread, current_device,
                   threads, pc, audio_chunks, filename, files, now,
                   ndelivered, session_open, cleared_by, session_chunks, drain_start>>
    /\ UNCHANGED <<config, host, ui, pipeline, start_device>>

\* ------------------------------------------------- is_currently_recording

\* lines 198-200
IsCurrentlyRecording ==
    /\ pc = "idle"
    /\ ret' = Returned("is_currently_recording",
                       IF is_recording THEN "True" ELSE "False", is_recording)
    /\ UNCHANGED <<is_recording, audio_queue, recording_thread, current_device,
                   threads, pc, audio_chunks, filename, files, now,
                   ndelivered, session_open, cleared_by, session_chunks, drain_start>>
    /\ UNCHANGED <<config, host, ui, pipeline, start_device>>

\* ------------------------------------------------------ _recording_worker

\* the except clause without line 102: the flag is left as it is
WorkerExcept_KeepsFlag(w) ==
    /\ threads' = [threads EXCEPT ![w] = Dead]
    /\ UNCHANGED <<is_recording, cleared_by>>

\* lines 100-102: the except clause
WorkerExcept(w) ==
    /\ threads' = [threads EXCEPT ![w] = Dead]
    /\ is_recording' = FALSE
    /\ cleared_by' = IF is_recording THEN w ELSE cleared_by

\* lines 90-97: the InputStream is opened on the device selected now; opening
\* may raise (device unavailable)
WorkerOpen(w) ==
    /\ threads[w].pc = "started"
    /\ \/ /\ threads' = [threads EXCEPT ![w] = [pc |-> "loop",
                                               device |-> current_device,
                                               samplerate |-> sample_rate,
                                               channels |-> channels]]
          /\ UNCHANGED <<is_recording, cleared_by>>
       \/ WorkerExcept(w)
    /\ UNCHANGED <<audio_queue, recording_thread, current_device,
                   pc, audio_chunks, filename, ret, files, now,
                   ndelivered, session_open, session_chunks, drain_start>>
    /\ UNCHANGED <<config, host, ui, pipeline, start_device>>

\* lines 98-99: the loop test finds the flag clear, the with block is left, the
\* stream is closed and the thread ends; sd.sleep(100) changes nothing
WorkerExit(w) ==
    /\ threads[w].pc = "loop"
    /\ ~is_recording
    /\ threads' = [threads EXCEPT ![w] = Dead]
    /\ UNCHANGED <<is_recording, audio_queue, recording_thread, current_device,
                   pc, audio_chunks, filename, ret, files, now,
                   ndelivered, session_open, cleared_by, session_chunks, drain_start>>
    /\ UNCHANGED <<config, host, ui, pipeline, start_device>>

\* the stream raises inside the with block and nothing catches the error: the
\* thread ends with the flag as it was
WorkerFail_NoExcept(w) ==
    /\ threads[w].pc = "loop"
    /\ threads' = [threads EXCEPT ![w] = Dead]
    /\ UNCHANGED <<is_recording, cleared_by>>
    /\ UNCHANGED <<audio_queue, recording_thread, current_device,
                   pc, audio_chunks, filename, ret, files, now,
                   ndelivered, session_open, session_chunks, drain_start>>
    /\ UNCHANGED <<config, host, ui, pipeline, start_device>>

\* the stream raises inside the with block
WorkerFail(w) ==
    /\ threads[w].pc = "loop"
    /\ WorkerExcept(w)
    /\ UNCHANGED <<audio_queue, recording_thread, current_device,
                   pc, audio_chunks, filename, ret, files, now,
                   ndelivered, session_open, session_chunks, drain_start>>
    /\ UNCHANGED <<config, host, ui, pipeline, start_device>>

\* -------------------------------------------------------- _audio_callback

\* lines 82-86: the host delivers one chunk to the callback of an open stream
AudioCallback(w, frames) ==
    /\ StreamOpen(w)
    /\ ndelivered < MaxChunks
    /\ LET indata == Chunk(ndelivered + 1, w, frames, threads[w])
       IN audio_queue' = QueuePut(audio_queue, indata)
    /\ ndelivered' = ndelivered + 1
    /\ session_chunks' = IF session_open THEN session_chunks \cup {ndelivered + 1}
                         ELSE session_chunks
    /\ UNCHANGED <<is_recording, recording_thread, current_device, threads,
                   pc, audio_chunks, filename, ret, files, now,
                   session_open, cleared_by, drain_start>>
    /\ UNCHANGED <<config, host, ui, pipeline, start_device>>

\* ------------------------------------------------------------------ system

Next ==
    \/ \E d \in Devices \cup {NoDevice} : StartRecording(d)
    \/ StartClear
    \/ StartRun
    \/ \E fn \in Names \cup {None} : StopRecording(fn)
    \/ StopJoin
    \/ StopDrain
    \/ StopSave
    \/ \E d \in Devices : SetDevice(d)
    \/ SidebarDeviceSelection
    \/ \E w \in Threads : WorkerOpen(w)
    \/ \E w \in Threads : WorkerExit(w)
    \/ \E w \in Threads : WorkerFail(w)
    \/ \E w \in Threads, n \in FrameCounts : AudioCallback(w, n)

Spec == Init /\ [][Next]_vars

\* The orchestrator thread is scheduled: a stop_recording call in progress
\* takes its next step.  Nothing is assumed of the workers or of the host.
LiveSpec ==
    Spec /\ WF_vars(StopJoin) /\ WF_vars(StopDrain) /\ WF_vars(StopSave)

\* The wall clock that datetime.now() reads (line 175) advances at any moment.
Tick ==
    /\ now < MaxClock
    /\ now' = now + 1
    /\ UNCHANGED <<is_recording, audio_queue, recording_thread, current_device,
                   threads, pc, audio_chunks, filename, ret, files,
                   ndelivered, session_open, cleared_by, session_chunks, drain_start>>
    /\ UNCHANGED <<config, host, ui, pipeline, start_device>>

ClockNext == Next \/ Tick

\* The recorder with the wall clock running.
ClockSpec == Init /\ [][ClockNext]_vars

\* Recording from the host's default device: sessions, workers and the
\* callback as in Next, without the selection of a device.
SessionNext ==
    \/ StartRecording(NoDevice)
    \/ StartClear
    \/ StartRun
    \/ \E fn \in Names \cup {None} : StopRecording(fn)
    \/ StopJoin
    \/ StopDrain
    \/ StopSave
    \/ \E w \in Threads : WorkerOpen(w)
    \/ \E w \in Threads : WorkerExit(w)
    \/ \E w \in Threads : WorkerFail(w)
    \/ \E w \in Threads, n \in FrameCounts : AudioCallback(w, n)

\* The recorder built with any supported sample rate and channel count.
ConfigSpec == ConfigInit /\ [][SessionNext]_vars

QueryNext == SessionNext \/ GetRecordingDuration

\* The recorder with its caller asking for the duration between calls.
QuerySpec == Init /\ [][QueryNext]_vars

StatusNext == SessionNext \/ IsCurrentlyRecording

\* The recorder with its caller asking between calls whether it is recording.
StatusSpec == Init /\ [][StatusNext]_vars

\* The recorder driven by the UI's Start and Stop buttons alone.
UiNext ==
    \/ StartButton
    \/ StartHandlerReturn
    \/ StopButton
    \/ StopHandlerReturn
    \/ StartClear
    \/ StartRun
    \/ StopJoin
    \/ StopDrain
    \/ StopSave
    \/ \E w \in Threads : WorkerOpen(w)
    \/ \E w \in Threads : WorkerExit(w)
    \/ \E w \in Threads : WorkerFail(w)
    \/ \E w \in Threads, n \in FrameCounts : AudioCallback(w, n)

UiSpec == Init /\ [][UiNext]_vars

\* The Transcribe & Summarize handler, pressed any number of times.
ProcessNext ==
    \/ ProcessTranscribe
    \/ ProcessSummarize
    \/ ProcessSaveTranscript
    \/ ProcessSaveSummary

ProcessSpec == ProcessInit /\ [][ProcessNext]_vars

\* The recorder as in Next, with the device of each start put on record.
DeviceRaceNext ==
    \/ \E d \in Devices \cup {NoDevice} : StartRecording(d)
    \/ StartClear
    \/ StartRunRecorded
    \/ \E fn \in Names \cup {None} : StopRecording(fn)
    \/ StopJoin
    \/ StopDrain
    \/ StopSave
    \/ \E d \in Devices : SetDevice(d)
    \/ SidebarDeviceSelection
    \/ \E w \in Threads : WorkerOpen(w)
    \/ \E w \in Threads : WorkerExit(w)
    \/ \E w \in Threads : WorkerFail(w)
    \/ \E w \in Threads, n \in FrameCounts : AudioCallback(w, n)

DeviceRaceSpec == Init /\ [][DeviceRaceNext]_vars

\* The listing and the selection of devices on any host.
DeviceNext ==
    \/ GetAudioDevicesCall
    \/ SidebarDeviceSelection

DeviceSpec == DeviceInit /\ [][DeviceNext]_vars

\* Every thread is scheduled: the orchestrator inside a call takes its next
\* step, a started worker opens its stream (or fails to), and a worker whose
\* loop test (line 96) stays false leaves the loop.  Stream errors and the
\* host's deliveries are not forced.
FairSpec ==
    /\ Spec
    /\ WF_vars(StartClear) /\ WF_vars(StartRun)
    /\ WF_vars(StopJoin) /\ WF_vars(StopDrain) /\ WF_vars(StopSave)
    /\ \A w \in Threads : WF_vars(WorkerOpen(w)) /\ WF_vars(WorkerExit(w))

\* ------------------------------------------------------------------ claims

IsStart == \E d \in Devices \cup {NoDevice} : StartRecording(d)
IsStop == \E fn \in Names \cup {None} : StopRecording(fn)

\* stop_recording returned a path
IsPath(val) == val \notin {None, "raised", "True", "False"}

\* the data of the file a call returned, <<>> when it returned no file
WrittenBuffer(r, fs) ==
    IF \E f \in fs : f.path = r.val
    THEN (CHOOSE f \in fs : f.path = r.val).data
    ELSE <<>>

\* how many times the chunk `id` is in a buffer
Occurrences(id, data) ==
    Cardinality({i \in 1 .. Len(data) : data[i].chunk = id /\ data[i].row = 1})

RECURSIVE SumFrames(_)
SumFrames(chunks) ==
    IF chunks = <<>> THEN 0
    ELSE Head(chunks).frames + SumFrames(Tail(chunks))

IsPrefix(p, q) == Len(p) <= Len(q) /\ SubSeq(q, 1, Len(p)) = p

\* the capture loop of the open session has cleared the running flag itself
StreamFailedMidSession ==
    /\ session_open
    /\ ~is_recording
    /\ cleared_by # NoThread
    /\ cleared_by = recording_thread

\* the last completed call is a stop_recording made while the flag was set
StoppedFromRecording ==
    pc = "idle" /\ ret.op = "stop_recording" /\ ret.was_recording

\* C1: a stop_recording call made after the session's own capture loop has
\* cleared the flag, with k >= 1 chunks queued, returns the path of a file that
\* holds those k chunks in order, with the queue drained and the flag clear.
C1_StopAfterStreamFailure ==
    [][ (pc = "idle" /\ StreamFailedMidSession /\ audio_queue # <<>> /\ IsStop /\ pc' = "idle")
        => /\ IsPath(ret'.val)
           /\ WrittenBuffer(ret', files') = Concatenate(audio_queue)
           /\ audio_queue' = <<>>
           /\ ~is_recording' ]_vars

\* C2: at most one worker thread with an open input stream is alive.
C2_AtMostOneCaptureLoop ==
    Cardinality({w \in Threads : StreamOpen(w)}) <= 1

\* C3: when the stop_recording call that ends a session returns (its write
\* not having failed), every chunk delivered to the callback since the
\* session's start is exactly once in the buffer that call wrote.
C3_NoChunkLostOrDuplicated ==
    [][ (session_open /\ ~session_open' /\ ret'.val # "raised")
        => \A id \in session_chunks :
              Occurrences(id, WrittenBuffer(ret', files')) = 1 ]_vars

\* C4: the buffer stop_recording writes is the chunks it took from the queue,
\* row after row in the order the callback put them: it starts with the chunks
\* that were queued when the drain began, its chunks are in delivery order, and
\* its frame count is the sum of their frame counts.
C4_BufferIsConcatenation ==
    [][ (pc = "stop_save" /\ pc' = "idle" /\ IsPath(ret'.val))
        => LET buf == WrittenBuffer(ret', files')
               Offset(j) == SumFrames(SubSeq(audio_chunks, 1, j - 1))
           IN /\ IsPrefix(drain_start, audio_chunks)
              /\ \A j \in 1 .. Len(audio_chunks) - 1 :
                    audio_chunks[j].id < audio_chunks[j + 1].id
              /\ Len(buf) = SumFrames(audio_chunks)
              /\ \A j \in 1 .. Len(audio_chunks) :
                    \A i \in 1 .. audio_chunks[j].frames :
                       buf[Offset(j) + i] = [chunk |-> audio_chunks[j].id,
                                             src |-> audio_chunks[j].src,
                                             row |-> i,
                                             width |-> audio_chunks[j].channels] ]_vars

\* a file of two chunks of different sizes has been written and returned
C4_Witness ==
    /\ pc = "idle"
    /\ IsPath(ret.val)
    /\ LET buf == WrittenBuffer(ret, files)
       IN /\ Len(buf) = 3
          /\ buf[1].chunk # buf[3].chunk

\* C5: start_recording called while the flag is set returns False and leaves
\* the flag, the device, the queue, the thread reference and every worker
\* thread as they were.
C5_StartWhileRecordingIsNoOp ==
    [][ (pc = "idle" /\ is_recording /\ IsStart)
        => /\ ret' = Returned("start_recording", "False", TRUE)
           /\ pc' = "idle"
           /\ UNCHANGED <<is_recording, current_device, audio_queue,
                          recording_thread, threads, files>> ]_vars

\* a start was refused while the worker's stream was open and chunks were queued
C5_Witness ==
    /\ pc = "idle"
    /\ ret = Returned("start_recording", "False", TRUE)
    /\ is_recording
    /\ StreamOpen(recording_thread)
    /\ audio_queue # <<>>

\* C6: stop_recording called while the flag is clear returns None, writes no
\* file, takes nothing from the queue and leaves the flag, the device and the
\* thread reference as they were.
C6_StopWhileIdleIsNoOp ==
    [][ (pc = "idle" /\ ~is_recording /\ IsStop)
        => /\ ret' = Returned("stop_recording", None, FALSE)
           /\ pc' = "idle"
           /\ UNCHANGED <<is_recording, current_device, audio_queue,
                          recording_thread, threads, files, audio_chunks>> ]_vars

\* a stop was refused while chunks were queued
C6_Witness ==
    /\ pc = "idle"
    /\ ret = Returned("stop_recording", None, FALSE)
    /\ ~is_recording
    /\ audio_queue # <<>>

\* C7: a stop_recording call that drained no chunk returns None, writes no
\* file and leaves the flag clear.
C7_EmptyCapture ==
    [][ (pc = "stop_save" /\ pc' = "idle" /\ audio_chunks = <<>>)
        => /\ ret' = Returned("stop_recording", None, TRUE)
           /\ files' = files
           /\ ~is_recording' ]_vars

\* a stop made from Recording returned None and no file has ever been written
C7_Witness ==
    /\ StoppedFromRecording
    /\ ret.val = None
    /\ files = {}

C9_StopLeavesIdle ==
    /\ [](StoppedFromRecording => ~is_recording)
    /\ [][ (StoppedFromRecording /\ IsStart) => pc' = "start_clear" ]_vars

\* a stop has finished with a write error while its worker was still alive
C9_Witness ==
    /\ StoppedFromRecording
    /\ ret.val = "raised"
    /\ Alive(recording_thread)

\* C10: the selected device does not change while the flag is set.
C10_DeviceFixedWhileRecording ==
    [][ is_recording => current_device' = current_device ]_vars

\* C11: a stop_recording call whose write of the WAV file fails returns the
\* failure result None; the error does not leave the call as an exception.
C11_WriteFailureIsReturned ==
    [][ (pc = "stop_save" /\ pc' = "idle" /\ audio_chunks # <<>> /\ ~IsPath(ret'.val))
        => ret'.val = None ]_vars

\* the worker created by the last start, if that start is the last call that
\* has returned, fails to open its stream in this step
OpenFailsAfterStart(w) ==
    /\ w = recording_thread
    /\ threads[w].pc = "started"
    /\ threads'[w].pc = "dead"
    /\ ret.op = "start_recording"

\* C12: the results tell the causes of failure apart: the start_recording
\* call of a session whose stream cannot be opened has not returned True, and
\* a stop_recording that drained nothing does not return what a stop_recording
\* made while not recording returns, nor does one whose write failed.
C12_FailureCausesDistinct ==
    /\ [][ \A w \in Threads : OpenFailsAfterStart(w) => ret.val # "True" ]_vars
    /\ [][ (pc = "stop_save" /\ pc' = "idle" /\ ~IsPath(ret'.val))
           => /\ ret'.val # Returned("stop_recording", None, FALSE).val
              /\ ret'.val # "raised" ]_vars

\* C13: every row of the buffer a stop_recording writes comes from a chunk
\* delivered by the stream of the session's own worker thread.
C13_OnlyOwnSessionChunks ==
    [][ (pc = "stop_save" /\ pc' = "idle" /\ IsPath(ret'.val))
        => LET buf == WrittenBuffer(ret', files')
           IN \A i \in 1 .. Len(buf) : buf[i].src = recording_thread ]_vars

\* C14: once a stop_recording has cleared the flag of the session of worker w,
\* w eventually terminates (its loop left, its stream closed), whatever the
\* orchestrator calls afterwards.
C14_StopIsObserved ==
    \A w \in Threads :
        (pc = "stop_join" /\ recording_thread = w) ~> (threads[w].pc = "dead")

\* C15: every stop_recording that returns a path has written one more file
\* under the recordings directory, named <name>.wav for a supplied name and
\* meeting_<timestamp>.wav otherwise: the number of files grows by one with each
\* successful stop, so no earlier session's file is replaced.
C15_OneFilePerSuccessfulStop ==
    [][ (pc = "stop_save" /\ pc' = "idle" /\ IsPath(ret'.val))
        => /\ ret'.val = FilePath(filename, now)
           /\ \E f \in files' : f.path = ret'.val
           /\ Cardinality(files') = Cardinality(files) + 1 ]_vars

\* the file a call returned the path of
WrittenFile(r, fs) == CHOOSE f \in fs : f.path = r.val

\* C16: the sample rate and the channel count in the file a stop_recording
\* writes are those of the session's own stream, whose chunks the file holds.
C16_FileFormatIsStreamFormat ==
    [][ (pc = "stop_save" /\ pc' = "idle" /\ IsPath(ret'.val))
        => LET f == WrittenFile(ret', files')
           IN \A j \in 1 .. Len(audio_chunks) :
                 audio_chunks[j].src = recording_thread
                    => /\ f.rate = audio_chunks[j].samplerate
                       /\ f.channels = audio_chunks[j].channels ]_vars

\* a recorder built for 16 kHz mono has written a file of its own stream's
\* chunks
C16_Witness ==
    /\ pc = "idle"
    /\ IsPath(ret.val)
    /\ sample_rate = 16000
    /\ channels = 1
    /\ LET f == WrittenFile(ret, files)
       IN /\ f.rate = 16000
          /\ f.channels = 1
          /\ f.data[1].src = recording_thread

\* the places in the host's list of the devices that can record
InputPlaces == {i \in 1 .. Len(host_devices) : host_devices[i].max_input_channels > 0}

\* C17: on a host that can be queried get_audio_devices raises nothing and
\* returns one entry for each host device with max_input_channels > 0 and no
\* other, with the host's enumeration index as id and the host's description
\* of that device, in enumeration order; with no such device the list is empty.
C17_ListsExactlyInputDevices ==
    (listed.called /\ host_available)
        => LET r == listed.input_devices
           IN /\ ~listed.raised
              /\ Len(r) = Cardinality(InputPlaces)
              /\ \A k \in 1 .. Len(r) :
                    /\ r[k].id + 1 \in InputPlaces
                    /\ r[k].name = host_devices[r[k].id + 1].name
                    /\ r[k].channels = host_devices[r[k].id + 1].max_input_channels
                    /\ r[k].sample_rate = host_devices[r[k].id + 1].default_samplerate
              /\ \A k \in 1 .. Len(r) - 1 : r[k].id < r[k + 1].id
              /\ (InputPlaces = {} => r = <<>>)

\* a host whose first device cannot record has been listed: the two devices
\* returned have ids that are not their places in the returned list
C17_Witness ==
    /\ listed.called
    /\ host_devices = <<Speakers, Headset, Microphone>>
    /\ Len(listed.input_devices) = 2
    /\ listed.input_devices[1].id = 1
    /\ listed.input_devices[2].id = 2

\* C18: on a host that cannot be queried get_audio_devices raises nothing and
\* returns no devices.
C18_QueryFailureReturnsNoDevices ==
    (listed.called /\ ~host_available)
        => /\ ~listed.raised
           /\ listed.input_devices = <<>>

\* C19: get_recording_duration returns the number of queued chunks times the
\* nominal chunk length while the flag is set and 0 while it is clear, and
\* changes nothing of the recorder: the queue, the flag, the device, the
\* threads and the files are as before.
C19_DurationIsPureQuery ==
    [][ (pc = "idle" /\ GetRecordingDuration)
        => /\ ret'.op = "get_recording_duration"
           /\ ret'.val = IF is_recording
                         THEN ToString(Len(audio_queue) * NominalChunkMs) \o " ms"
                         ELSE "0 ms"
           /\ UNCHANGED <<is_recording, audio_queue, recording_thread,
                          current_device, threads, pc, audio_chunks, files,
                          sample_rate, channels>> ]_vars

\* the duration has been asked for while not recording with a chunk queued
\* (left by a stream that failed), and the chunk is still queued
C19_Witness ==
    /\ pc = "idle"
    /\ ret = Returned("get_recording_duration", "0 ms", FALSE)
    /\ ~is_recording
    /\ audio_queue # <<>>

\* C20: whenever no call of the recorder is in progress, a set flag means that
\* the worker thread of the most recent successful start_recording has not
\* terminated, and a clear flag means that a start_recording call made then
\* passes its guard, starts a worker and returns True.
C20_SessionWellDefined ==
    /\ []((pc = "idle" /\ is_recording)
            => (recording_thread # NoThread /\ Alive(recording_thread)))
    /\ [][ (pc = "idle" /\ ~is_recording /\ IsStart) => pc' = "start_clear" ]_vars
    /\ [][ (pc = "start_run" /\ pc' = "idle")
           => /\ ret' = Returned("start_recording", "True", FALSE)
              /\ is_recording'
              /\ Alive(recording_thread)' ]_vars

\* the second session is recording, its stream open, after the first
\* session's stream failed
C20_Witness ==
    /\ pc = "idle"
    /\ is_recording
    /\ recording_thread = 2
    /\ StreamOpen(2)
    /\ threads[1].pc = "dead"
    /\ ret = Returned("start_recording", "True", FALSE)

\* worker w ends in this step because opening its stream, or the open stream,
\* raised
StreamRaises(w) ==
    \/ WorkerFail(w)
    \/ WorkerOpen(w) /\ threads'[w].pc # "loop"

\* C21: a step in which opening or polling a worker's stream raises leaves
\* that worker terminated and the flag clear, and is the worker's alone (no
\* call of the orchestrator is part of it, nothing is returned or raised to a
\* caller); while the flag has been cleared so, is_currently_recording returns
\* False.
C21_StreamErrorClearsFlag ==
    /\ [][ \A w \in Threads :
             StreamRaises(w)
                => /\ threads'[w].pc = "dead"
                   /\ ~is_recording'
                   /\ UNCHANGED <<pc, ret, recording_thread, audio_queue, files>> ]_vars
    /\ [][ (pc = "idle" /\ cleared_by # NoThread /\ IsCurrentlyRecording)
           => ret'.val = "False" ]_vars

\* is_currently_recording has returned False after the open stream of the
\* session raised, no stop having been called
C21_Witness ==
    /\ pc = "idle"
    /\ ret = Returned("is_currently_recording", "False", FALSE)
    /\ session_open
    /\ cleared_by = recording_thread
    /\ threads[recording_thread].pc = "dead"
    /\ audio_queue # <<>>

\* C22: the worker of the session last started opens its stream on the device
\* that was selected when that start_recording returned True.
C22_StreamOnDeviceOfStart ==
    [][ \A w \in Threads :
          (w = recording_thread /\ threads[w].pc = "started" /\ threads'[w].pc = "loop")
             => threads'[w].device = start_device ]_vars

\* C23: a step that clears the flag while it is set is either the guard of a
\* stop_recording call being passed or the stream of the session's own worker
\* (the thread the last start created) raising.
C23_FlagClearedByOwnSession ==
    [][ (is_recording /\ ~is_recording')
        => \/ pc = "idle" /\ pc' = "stop_join"
           \/ /\ Alive(recording_thread)
              /\ threads'[recording_thread].pc = "dead" ]_vars

\* C24: when a Start Recording or Stop Recording handler of the UI completes,
\* the UI's is_recording equals the recorder's flag, whatever the outcome; so
\* the Start button is enabled whenever the recorder is not recording.
C24_UiFollowsRecorder ==
    [][ (ui_handler # "none" /\ ui_handler' = "none")
        => ui_is_recording' = is_recording' ]_vars

\* C25: when a Transcribe & Summarize run has completed without error, the
\* transcript and the summary the UI shows are the texts saved in the
\* meeting's transcript file and summary file.
C25_ShownIsSaved ==
    process_pc = "done"
        => /\ current_transcript = transcript_file
           /\ current_summary = summary_file

\* C26: a summarize call with the default prompt returns a summary and does
\* not raise; without a model it does not call the cloud model and returns the
\* offline summary of the transcript; with a model it returns the offline
\* summary when the cloud call raises and the cloud model's text when it
\* succeeds.
C26_SummarizeAlwaysReturns ==
    last_summarize.called
        => /\ ~last_summarize.raised
           /\ last_summarize.summary # None
           /\ (~summarizer_model
                 => /\ last_summarize.cloud = NoCall
                    /\ last_summarize.summary
                         = "Meeting Summary (Offline Mode): " \o last_summarize.transcript)
           /\ (summarizer_model
                 => /\ last_summarize.cloud # NoCall
                    /\ (last_summarize.cloud = ServiceError
                          => last_summarize.summary
                               = "Meeting Summary (Offline Mode): "
                                     \o last_summarize.transcript)
                    /\ (last_summarize.cloud # ServiceError
                          => last_summarize.summary = last_summarize.cloud))
           /\ (last_summarize.summary \in CloudTexts
                 => summarizer_model /\ last_summarize.cloud = last_summarize.summary)

\* with a model configured the cloud call raised while the summary to save
\* was made, and the offline summary has been saved
C26_Witness ==
    /\ summarizer_model
    /\ process_pc = "done"
    /\ last_summarize.cloud = ServiceError
    /\ summary_file = GetOfflineSummary(result_text)
    /\ current_summary \in CloudTexts

====
